---- MODULE Spec2Model ----
(***************************************************************************)
(* State-machine model of smplparameter2mesh/get_smpl.py: the SMPLModel    *)
(* object (pose, beta, trans, J, R, verts, faces), its constructor,        *)
(* set_params / update, and the two .obj writers.                          *)
(*                                                                         *)
(* Numbers.  The source computes in float64.  The model computes the same  *)
(* formulas in exact integer arithmetic; to keep Rodrigues' formula exact, *)
(* axis-angle components are counted in quarter turns (1 = pi/2) and the   *)
(* inputs are vectors along one coordinate axis (at most one component is  *)
(* not zero), so cos and sin take the values -1, 0, 1 and the unit axis    *)
(* r / theta is a signed unit vector.  Rodrigues1 is defined for such      *)
(* vectors only: the rotation about any other axis has entries that are    *)
(* not whole numbers.                                                      *)
(*                                                                         *)
(* Arrays.  A numpy array handed in by a caller is a record                *)
(* [shape, data] with data in row-major (C) order, so that reshape is what *)
(* numpy's reshape is.  Arrays of the loaded model and the derived arrays  *)
(* are nested tuples; position i+1 of a tuple holds the source's index i.  *)
(***************************************************************************)
EXTENDS Integers, Sequences, FiniteSets, TLC

VARIABLES model_path, st, pose, beta, trans, J, R, verts, faces, loc, call,
          file, nops

vars == <<model_path, st, pose, beta, trans, J, R, verts, faces, loc, call,
          file, nops>>

\* Number of operations (set_params, save_to_obj, save_obj) explored on one object.
MaxOps == 2

(***************************************************************************)
(* numpy helpers                                                           *)
(***************************************************************************)
Arr(shape, data) == [shape |-> shape, data |-> data]

\* An omitted keyword argument (pose=None, beta=None, trans=None).
None == Arr(<<-1>>, <<>>)

IsNone(a) == a.shape = <<-1>>

Size(a) == Len(a.data)

RECURSIVE Rep(_, _)
Rep(x, n) ==
  IF n = 0 THEN <<>>
  ELSE IF n % 2 = 0 THEN LET h == Rep(x, n \div 2) IN h \o h
  ELSE Rep(x, n - 1) \o x

\* np.zeros(shape)
Zeros1(n) == Arr(<<n>>, Rep(<<0>>, n))

Zeros2(n, m) == Arr(<<n, m>>, Rep(Rep(<<0>>, m), n))

Zero4 == <<<<0, 0, 0, 0>>, <<0, 0, 0, 0>>, <<0, 0, 0, 0>>, <<0, 0, 0, 0>>>>

Row4(A, B, i) ==
  <<A[i][1]*B[1][1] + A[i][2]*B[2][1] + A[i][3]*B[3][1] + A[i][4]*B[4][1],
    A[i][1]*B[1][2] + A[i][2]*B[2][2] + A[i][3]*B[3][2] + A[i][4]*B[4][2],
    A[i][1]*B[1][3] + A[i][2]*B[2][3] + A[i][3]*B[3][3] + A[i][4]*B[4][3],
    A[i][1]*B[1][4] + A[i][2]*B[2][4] + A[i][3]*B[3][4] + A[i][4]*B[4][4]>>

\* ndarray.dot of two [4,4] matrices
MatMul4(A, B) == <<Row4(A, B, 1), Row4(A, B, 2), Row4(A, B, 3), Row4(A, B, 4)>>

\* [4,4] matrix times a [4,1] column
MatVec4(A, x) ==
  <<A[1][1]*x[1] + A[1][2]*x[2] + A[1][3]*x[3] + A[1][4]*x[4],
    A[2][1]*x[1] + A[2][2]*x[2] + A[2][3]*x[3] + A[2][4]*x[4],
    A[3][1]*x[1] + A[3][2]*x[2] + A[3][3]*x[3] + A[3][4]*x[4],
    A[4][1]*x[1] + A[4][2]*x[2] + A[4][3]*x[3] + A[4][4]*x[4]>>

Add4(A, B) ==
  <<<<A[1][1]+B[1][1], A[1][2]+B[1][2], A[1][3]+B[1][3], A[1][4]+B[1][4]>>,
    <<A[2][1]+B[2][1], A[2][2]+B[2][2], A[2][3]+B[2][3], A[2][4]+B[2][4]>>,
    <<A[3][1]+B[3][1], A[3][2]+B[3][2], A[3][3]+B[3][3], A[3][4]+B[3][4]>>,
    <<A[4][1]+B[4][1], A[4][2]+B[4][2], A[4][3]+B[4][3], A[4][4]+B[4][4]>>>>

Scale4(w, A) ==
  <<<<w*A[1][1], w*A[1][2], w*A[1][3], w*A[1][4]>>,
    <<w*A[2][1], w*A[2][2], w*A[2][3], w*A[2][4]>>,
    <<w*A[3][1], w*A[3][2], w*A[3][3], w*A[3][4]>>,
    <<w*A[4][1], w*A[4][2], w*A[4][3], w*A[4][4]>>>>

Add3(a, b) == <<a[1] + b[1], a[2] + b[2], a[3] + b[3]>>

Sub3(a, b) == <<a[1] - b[1], a[2] - b[2], a[3] - b[3]>>

Scale3(w, a) == <<w * a[1], w * a[2], w * a[3]>>

(***************************************************************************)
(* The loaded model files (pickle.load, lines 14-24).  Each is the         *)
(* dictionary the constructor reads: kintree_table [2,K] (row 0: parent    *)
(* ids, row 1: joint ids), J_regressor [K,N], weights [N,K], posedirs      *)
(* [N,3,9(K-1)], v_template [N,3], shapedirs [N,3,10], f [F,3].            *)
(***************************************************************************)
\* The entry kintree_table[0, 0], the root's parent id.  SMPL stores
\* 4294967295 there (uint32 -1); the constructor never looks it up, and the
\* model writes the largest id the model's 32-bit integers hold.
NoParentId == 2147483647

OneHot(n, k) == Rep(<<0>>, k) \o <<1>> \o Rep(<<0>>, n - k - 1)

Zeros9 == <<0, 0, 0, 0, 0, 0, 0, 0, 0>>

\* posedirs[v][c][9(j-1) .. 9(j-1)+8], the coefficients of joint j's block
PoseDirBlock(v, c, j) ==
  IF v = 2 /\ c = 0 /\ j = 1 THEN <<0, 0, 0, 0, 1, 0, 0, 0, 0>>
  ELSE IF v = 3 /\ c = 1 /\ j = 2 THEN <<2, 0, 0, 0, 0, 0, 0, 0, 0>>
  ELSE Zeros9

RECURSIVE PoseDirRow(_, _, _)
PoseDirRow(v, c, j) ==
  IF j = 0 THEN <<>> ELSE PoseDirRow(v, c, j - 1) \o PoseDirBlock(v, c, j)

PoseDirs(v, K) == <<PoseDirRow(v, 0, K - 1), PoseDirRow(v, 1, K - 1), PoseDirRow(v, 2, K - 1)>>

Zeros10 == <<0, 0, 0, 0, 0, 0, 0, 0, 0, 0>>

\* The kinematic tree of the released SMPL model: 24 joints, every parent
\* stored in a column before its children.
SmplKintree ==
  << <<NoParentId, 0, 0, 0, 1, 2, 3, 4, 5, 6, 7, 8, 9, 9, 9, 12, 13, 14, 16, 17,
       18, 19, 20, 21>>,
     <<0, 1, 2, 3, 4, 5, 6, 7, 8, 9, 10, 11, 12, 13, 14, 15, 16, 17, 18, 19,
       20, 21, 22, 23>> >>

\* The same joints with joints 1 and 4 exchanged in the tree: joint 4 hangs
\* from the root and joint 1 from joint 4.  A tree (acyclic, single root 0,
\* every joint reachable) whose column order is not parent-before-child.
PermKintree ==
  << <<NoParentId, 4, 0, 0, 0, 2, 3, 4, 5, 6, 7, 8, 9, 9, 9, 12, 13, 14, 16, 17,
       18, 19, 20, 21>>,
     <<0, 1, 2, 3, 4, 5, 6, 7, 8, 9, 10, 11, 12, 13, 14, 15, 16, 17, 18, 19,
       20, 21, 22, 23>> >>

RECURSIVE RegressorRows(_, _)
RegressorRows(k, n) ==
  IF k = 0 THEN <<>> ELSE RegressorRows(k - 1, n) \o <<OneHot(n, (k - 1) % n)>>

\* A 24-joint, 4-vertex model.  Joints 0 and 1 and vertices 0 and 1 are the
\* two-joint rig of the end-to-end scenario: rest joints (0,0,0) and
\* (0,1,0), vertex 0 on joint 0, vertex 1 on joint 1, no blend on either.
Smpl24 ==
  [ kintree_table |-> SmplKintree,
    J_regressor   |-> RegressorRows(24, 4),
    weights       |-> <<OneHot(24, 0), OneHot(24, 1), OneHot(24, 4), OneHot(24, 2)>>,
    posedirs      |-> <<PoseDirs(0, 24), PoseDirs(1, 24), PoseDirs(2, 24), PoseDirs(3, 24)>>,
    v_template    |-> <<<<0, 0, 0>>, <<0, 1, 0>>, <<1, 2, 0>>, <<2, 0, 1>>>>,
    shapedirs     |-> << <<Zeros10, Zeros10, Zeros10>>,
                         <<Zeros10, <<1, 0, 0, 0, 0, 0, 0, 0, 0, 0>>, Zeros10>>,
                         <<<<0, 1, 0, 0, 0, 0, 0, 0, 0, 0>>, Zeros10, Zeros10>>,
                         <<Zeros10, Zeros10, Zeros10>> >>,
    f             |-> <<<<0, 1, 2>>, <<1, 2, 3>>>> ]

Perm24 == [Smpl24 EXCEPT !.kintree_table = PermKintree]

\* The SMPL hierarchy with the parent id of joint 5 replaced by 99, which is
\* no joint's id.
Orphan24 == [Smpl24 EXCEPT !.kintree_table[1][6] = 99]

\* The two-joint rig of the end-to-end scenario as a model file of its own.
Two ==
  [ kintree_table |-> << <<NoParentId, 0>>, <<0, 1>> >>,
    J_regressor   |-> <<<<1, 0>>, <<0, 1>>>>,
    weights       |-> <<<<1, 0>>, <<0, 1>>>>,
    posedirs      |-> << <<Zeros9, Zeros9, Zeros9>>, <<Zeros9, Zeros9, Zeros9>> >>,
    v_template    |-> <<<<0, 0, 0>>, <<0, 1, 0>>>>,
    shapedirs     |-> << <<Zeros10, Zeros10, Zeros10>>, <<Zeros10, Zeros10, Zeros10>> >>,
    f             |-> <<<<0, 1, 0>>>> ]

ModelPaths == {"smpl24", "perm24", "two", "orphan24"}

\* pickle.load(f) of the file at model_path
Load(path) ==
  CASE path = "smpl24" -> Smpl24
    [] path = "perm24" -> Perm24
    [] path = "two"    -> Two
    [] path = "orphan24" -> Orphan24

(***************************************************************************)
(* __init__, lines 26-32: the parent map                                   *)
(***************************************************************************)
NumJoints(params) == Len(params.kintree_table[1])

\* id_to_col[id]: a dict comprehension keeps the last column holding the id.
id_to_col(kt, id) ==
  LET cols == {i \in 0..(Len(kt[2]) - 1) : kt[2][i + 1] = id}
  IN CHOOSE i \in cols : \A k \in cols : k <= i

\* Whether building self.parent raises KeyError (a parent id that is no joint id).
ParentKeyError(kt) ==
  \E i \in 1..(Len(kt[1]) - 1) : \A c \in 1..Len(kt[2]) : kt[2][c] # kt[1][i + 1]

RECURSIVE ParentUpTo(_, _)
ParentUpTo(kt, i) ==
  IF i = 0 THEN <<>> ELSE ParentUpTo(kt, i - 1) \o <<id_to_col(kt, kt[1][i + 1])>>

\* self.parent: position i (1 <= i < K) holds parent[i].
parent(kt) == ParentUpTo(kt, Len(kt[1]) - 1)

(***************************************************************************)
(* rodrigues, lines 114-144 (one element of the batch, then the batch)     *)
(***************************************************************************)
Abs(x) == IF x < 0 THEN -x ELSE x

\* The vector r lies along one coordinate axis.
Axial(r) == Cardinality({i \in 1..3 : r[i] # 0}) <= 1

\* np.linalg.norm of one axis-angle vector, in quarter turns
Norm(r) ==
  CHOOSE q \in 0..(Abs(r[1]) + Abs(r[2]) + Abs(r[3])) :
    q * q = r[1]*r[1] + r[2]*r[2] + r[3]*r[3]

\* np.cos and np.sin of theta quarter turns.  theta = 0 stands for the
\* clamped angle eps of line 127: cos(eps) = 1.0 in float64, and sin(eps)
\* multiplies m = 0.
Cos(theta) == CASE theta % 4 = 0 -> 1 [] theta % 4 = 1 -> 0 [] theta % 4 = 2 -> -1 [] theta % 4 = 3 -> 0

Sin(theta) == CASE theta % 4 = 0 -> 0 [] theta % 4 = 1 -> 1 [] theta % 4 = 2 -> 0 [] theta % 4 = 3 -> -1

\* R = cos * i_cube + (1 - cos) * dot + sin(theta) * m, for one vector r
Rodrigues1(r) ==
  LET theta == Norm(r)
      \* r_hat = r / max(theta, eps); for an axial r the division is exact
      h == CASE theta = 0 -> <<0, 0, 0>>
             [] theta # 0 /\ Axial(r) ->
                  <<r[1] \div theta, r[2] \div theta, r[3] \div theta>>
      c == Cos(theta)
      s == Sin(theta)
  IN << <<c + (1 - c)*h[1]*h[1], (1 - c)*h[1]*h[2] - s*h[3], (1 - c)*h[1]*h[3] + s*h[2]>>,
        <<(1 - c)*h[2]*h[1] + s*h[3], c + (1 - c)*h[2]*h[2], (1 - c)*h[2]*h[3] - s*h[1]>>,
        <<(1 - c)*h[3]*h[1] - s*h[2], (1 - c)*h[3]*h[2] + s*h[1], c + (1 - c)*h[3]*h[3]>> >>

\* pose.reshape((-1, 1, 3)) followed by rodrigues: element k of the batch is
\* built from data[3k], data[3k+1], data[3k+2] of the flat array.
RECURSIVE rodrigues(_, _)
rodrigues(data, n) ==
  IF n = 0 THEN <<>>
  ELSE rodrigues(data, n - 1)
         \o <<Rodrigues1(<<data[3*n - 2], data[3*n - 1], data[3*n]>>)>>

\* with_zeros, lines 146-156, applied to np.hstack((Rm, t.reshape([3, 1])))
with_zeros(Rm, t) ==
  << <<Rm[1][1], Rm[1][2], Rm[1][3], t[1]>>,
     <<Rm[2][1], Rm[2][2], Rm[2][3], t[2]>>,
     <<Rm[3][1], Rm[3][2], Rm[3][3], t[3]>>,
     <<0, 0, 0, 1>> >>

\* pack, lines 158-169, for one [4,1] column x: zeros [4,3] and x beside them
pack(x) ==
  << <<0, 0, 0, x[1]>>, <<0, 0, 0, x[2]>>, <<0, 0, 0, x[3]>>, <<0, 0, 0, x[4]>> >>

(***************************************************************************)
(* update, lines 73-112                                                    *)
(***************************************************************************)
RECURSIVE DotN(_, _, _)
DotN(a, b, n) == IF n = 0 THEN 0 ELSE DotN(a, b, n - 1) + a[n] * b[n]

\* line 78, one vertex: shapedirs[v].dot(beta) + v_template[v]
VShaped1(params, b, v) ==
  LET m == Len(b)
      sd == params.shapedirs[v]
      t == params.v_template[v]
  IN <<DotN(sd[1], b, m) + t[1], DotN(sd[2], b, m) + t[2], DotN(sd[3], b, m) + t[3]>>

RECURSIVE VShaped(_, _, _)
VShaped(params, b, n) ==
  IF n = 0 THEN <<>> ELSE VShaped(params, b, n - 1) \o <<VShaped1(params, b, n)>>

RECURSIVE WeightedSum3(_, _, _)
WeightedSum3(w, pts, n) ==
  IF n = 0 THEN <<0, 0, 0>> ELSE Add3(WeightedSum3(w, pts, n - 1), Scale3(w[n], pts[n]))

\* line 80: J_regressor.dot(v_shaped), rows 0..k-1
RECURSIVE Joints(_, _, _)
Joints(params, v_shaped, k) ==
  IF k = 0 THEN <<>>
  ELSE Joints(params, v_shaped, k - 1)
         \o <<WeightedSum3(params.J_regressor[k], v_shaped, Len(v_shaped))>>

\* line 88, the 9 entries of (R[j] - I).ravel() for one joint
RotMinBlock(Rm) ==
  <<Rm[1][1] - 1, Rm[1][2], Rm[1][3], Rm[2][1], Rm[2][2] - 1, Rm[2][3],
    Rm[3][1], Rm[3][2], Rm[3][3] - 1>>

\* line 88: lrotmin = (R[1:] - I_cube).ravel(), kept as one block per joint
RECURSIVE RotMinBlocks(_, _, _)
RotMinBlocks(Rs, first, n) ==
  IF n = 0 THEN <<>>
  ELSE RotMinBlocks(Rs, first, n - 1) \o <<RotMinBlock(Rs[first + n - 1])>>

lrotmin(Rs) == RotMinBlocks(Rs, 2, Len(Rs) - 1)

Dot9(row, j, blk) ==
  row[9*j - 8]*blk[1] + row[9*j - 7]*blk[2] + row[9*j - 6]*blk[3]
  + row[9*j - 5]*blk[4] + row[9*j - 4]*blk[5] + row[9*j - 3]*blk[6]
  + row[9*j - 2]*blk[7] + row[9*j - 1]*blk[8] + row[9*j]*blk[9]

RECURSIVE DotBlocks(_, _, _)
DotBlocks(row, lrm, j) ==
  IF j = 0 THEN 0 ELSE DotBlocks(row, lrm, j - 1) + Dot9(row, j, lrm[j])

\* line 90: v_posed = v_shaped + posedirs.dot(lrotmin), vertices 0..n-1
RECURSIVE VPosed(_, _, _, _)
VPosed(params, v_shaped, lrm, n) ==
  IF n = 0 THEN <<>>
  ELSE LET pd == params.posedirs[n]
           m == Len(lrm)
       IN VPosed(params, v_shaped, lrm, n - 1)
            \o <<Add3(v_shaped[n],
                      <<DotBlocks(pd[1], lrm, m), DotBlocks(pd[2], lrm, m),
                        DotBlocks(pd[3], lrm, m)>>)>>

\* lines 94-101, iteration i of the loop on the array acc.G: G[i] is
\* assigned G[parent[i]] . local_i with whatever G[parent[i]] holds.  acc
\* also carries the joints assigned so far and the joints whose
\* G[parent[i]] was read before any assignment to it.
GStep(par, Rs, Js, acc, i) ==
  LET p == par[i] IN
  [G |-> [acc.G EXCEPT ![i + 1] =
            MatMul4(acc.G[p + 1],
                    with_zeros(Rs[i + 1], Sub3(Js[i + 1], Js[p + 1])))],
   assigned |-> acc.assigned \cup {i},
   unassigned |-> IF p \in acc.assigned THEN acc.unassigned
                  ELSE acc.unassigned \cup {i}]

\* for i in range(i, K): the iterations i .. K-1 in index order
RECURSIVE GFrom(_, _, _, _, _, _)
GFrom(par, Rs, Js, acc, i, K) ==
  IF i >= K THEN acc
  ELSE CHOOSE r \in {GFrom(par, Rs, Js, nxt, i + 1, K) :
                       nxt \in {GStep(par, Rs, Js, acc, i)}} : TRUE

\* lines 92-101.  G starts as the uninitialised array mem = np.empty((K,4,4)),
\* G[0] is assigned in line 93, then the loop runs.
GLoop(par, Rs, Js, mem, K) ==
  GFrom(par, Rs, Js,
        [G |-> [mem EXCEPT ![1] = with_zeros(Rs[1], Js[1])],
         assigned |-> {0}, unassigned |-> {}],
        1, K)

\* The literal 24 of np.zeros([24, 1]) and reshape([24, 4, 1]) in line 105.
RestRows == 24

\* lines 102-107 for joints 0..k-1: G[i] - pack(G[i] . [J[i]; 0])
RECURSIVE Corrected(_, _, _)
Corrected(G, Js, k) ==
  IF k = 0 THEN <<>>
  ELSE LET c == MatVec4(G[k], <<Js[k][1], Js[k][2], Js[k][3], 0>>)
       IN Corrected(G, Js, k - 1) \o <<Add4(G[k], Scale4(-1, pack(c)))>>

\* line 109, one vertex: sum over joints 0..k-1 of weights[v][i] * G[i]
RECURSIVE Blend(_, _, _)
Blend(w, G, k) ==
  IF k = 0 THEN Zero4 ELSE Add4(Blend(w, G, k - 1), Scale4(w[k], G[k]))

\* lines 109-112 for vertices 0..n-1
RECURSIVE Skin(_, _, _, _, _)
Skin(params, G, v_posed, t, n) ==
  IF n = 0 THEN <<>>
  ELSE LET T == Blend(params.weights[n], G, Len(G))
           h == MatVec4(T, <<v_posed[n][1], v_posed[n][2], v_posed[n][3], 1>>)
       IN Skin(params, G, v_posed, t, n - 1)
            \o <<Add3(<<h[1], h[2], h[3]>>, t)>>

\* update's locals, kept for the properties: the corrected G of line 102,
\* v_shaped and v_posed, the joints whose G[parent] was read unassigned, and
\* the self.R and self.J that G was built from.
NoLoc == [G |-> <<>>, v_shaped |-> <<>>, v_posed |-> <<>>, unassigned |-> {},
          R |-> <<>>, J |-> <<>>]

\* lines 102-112 on the array G the loop left
Finish(params, lp, Js, Rs, v_shaped, v_posed, T) ==
  LET K == NumJoints(params)
      G == Corrected(lp.G, Js, K)
      l == [G |-> G, v_shaped |-> v_shaped, v_posed |-> v_posed,
            unassigned |-> lp.unassigned, R |-> Rs, J |-> Js]
  IN IF Len(params.weights[1]) # K
     THEN [at |-> 109, J |-> Js, R |-> Rs, verts |-> <<>>, loc |-> l]
     ELSE IF Size(T) # 3
     THEN [at |-> 112, J |-> Js, R |-> Rs, verts |-> <<>>, loc |-> l]
     ELSE [at |-> 0, J |-> Js, R |-> Rs,
           verts |-> Skin(params, G, v_posed, T.data, Len(params.v_template)),
           loc |-> l]

(***************************************************************************)
(* numpy on arrays of any rank, as records [shape, data]: what lines 78    *)
(* and 80 do when beta is not a vector                                     *)
(***************************************************************************)
RECURSIVE Prod(_)
Prod(s) == IF s = <<>> THEN 1 ELSE s[1] * Prod(Tail(s))

RECURSIVE Concat(_)
Concat(seqs) == IF seqs = <<>> THEN <<>> ELSE seqs[1] \o Concat(Tail(seqs))

\* The result of an operation whose operand shapes do not fit: it raises.
NoShape == <<-1>>

\* Shape of a.dot(b) for a of rank >= 2: a scalar b multiplies, a vector b
\* is summed against the last axis of a, and for b of rank >= 2 the last
\* axis of a is summed against the second-to-last axis of b.
DotShape(as, bs) ==
  LET n == Len(bs)
      m == Len(as)
  IN IF n = 0 THEN as
     ELSE IF n = 1
     THEN (IF bs[1] = as[m] THEN SubSeq(as, 1, m - 1) ELSE NoShape)
     ELSE IF bs[n - 1] = as[m]
     THEN SubSeq(as, 1, m - 1) \o SubSeq(bs, 1, n - 2) \o <<bs[n]>>
     ELSE NoShape

\* The shape s with ones in front, up to rank n
Pad(s, n) == Rep(<<1>>, n - Len(s)) \o s

Max(a, b) == IF a < b THEN b ELSE a

\* numpy's broadcasting of two shapes
Broadcast(s1, s2) ==
  LET n == Max(Len(s1), Len(s2))
      a == Pad(s1, n)
      b == Pad(s2, n)
  IN IF \A i \in 1..n : a[i] = b[i] \/ a[i] = 1 \/ b[i] = 1
     THEN [i \in 1..n |-> IF a[i] = 1 THEN b[i] ELSE a[i]] \o <<>>
     ELSE NoShape

\* The index tuple (0-based) of the element at flat position f (0-based) of
\* an array of shape s in C order
RECURSIVE Unravel(_, _)
Unravel(f, s) ==
  IF s = <<>> THEN <<>>
  ELSE LET rest == Prod(Tail(s)) IN <<f \div rest>> \o Unravel(f % rest, Tail(s))

\* The flat position (0-based) in an array of shape s of the element that
\* broadcasting reads for the index tuple mi: an axis of length 1 is read
\* at 0.
RECURSIVE RavelB(_, _, _, _)
RavelB(mi, s, i, acc) ==
  IF i > Len(s) THEN acc
  ELSE RavelB(mi, s, i + 1, acc * s[i] + (IF s[i] = 1 THEN 0 ELSE mi[i]))

\* a + b with broadcasting, for shapes that fit
AddB(a, b) ==
  LET s == Broadcast(a.shape, b.shape)
      n == Len(s)
      sa == Pad(a.shape, n)
      sb == Pad(b.shape, n)
  IN Arr(s, [f \in 1..Prod(s) |->
               LET mi == Unravel(f - 1, s)
               IN a.data[RavelB(mi, sa, 1, 0) + 1] + b.data[RavelB(mi, sb, 1, 0) + 1]] \o <<>>)

\* sum over k < kc of a[ia, k] * b[jb, k, l], on the flat data
RECURSIVE DotSum(_, _, _, _, _, _, _)
DotSum(a, b, ia, jb, l, kc, k) ==
  IF k = 0 THEN 0
  ELSE DotSum(a, b, ia, jb, l, kc, k - 1)
         + a.data[ia * kc + k] * b.data[(jb * kc + k - 1) * b.shape[Len(b.shape)] + l + 1]

\* a.dot(b) for a of rank >= 2 and b of rank >= 2, for shapes that fit
DotB(a, b) ==
  LET s == DotShape(a.shape, b.shape)
      kc == a.shape[Len(a.shape)]
      L == b.shape[Len(b.shape)]
      pb == Prod(SubSeq(b.shape, 1, Len(b.shape) - 2))
  IN Arr(s, [f \in 1..Prod(s) |->
               DotSum(a, b, (f - 1) \div (pb * L), ((f - 1) \div L) % pb,
                      (f - 1) % L, kc, kc)] \o <<>>)

\* An array as nested tuples: its entries along the first axis, 0..i-1
RECURSIVE Nest(_, _, _)
Nest(data, shape, i) ==
  IF Len(shape) = 0 THEN data[1]
  ELSE IF i = 0 THEN <<>>
  ELSE LET r == Prod(Tail(shape))
       IN Nest(data, shape, i - 1)
            \o <<Nest(SubSeq(data, (i - 1) * r + 1, i * r), Tail(shape),
                      IF Len(shape) = 1 THEN 0 ELSE shape[2])>>

\* lines 78 and 80 for a beta that is not a vector: the line that raises (0
\* when neither does) and the self.J assigned, one entry per row of
\* J_regressor.  A scalar beta multiplies shapedirs and the sum with
\* v_template raises.
VShapedB(params, B) ==
  LET N == Len(params.v_template)
      sd == Arr(<<N, 3, Len(params.shapedirs[1][1])>>, Concat(Concat(params.shapedirs)))
      vt == Arr(<<N, 3>>, Concat(params.v_template))
      ds == DotShape(sd.shape, B.shape)
      dn == Len(B.shape)
  IN IF dn = 0 \/ ds = NoShape \/ Broadcast(ds, vt.shape) = NoShape
     THEN [at |-> 78, J |-> <<>>]
     ELSE
     LET v_shaped == AddB(DotB(sd, B), vt)
         jr == Arr(<<Len(params.J_regressor), N>>, Concat(params.J_regressor))
         js == DotShape(jr.shape, v_shaped.shape)
     IN IF js = NoShape THEN [at |-> 80, J |-> <<>>]
        ELSE LET Jb == DotB(jr, v_shaped)
             IN [at |-> 0, J |-> Nest(Jb.data, Jb.shape, Jb.shape[1]),
                 row |-> Prod(Tail(Jb.shape))]

\* The outcomes of one run of update on the stored pose P, beta B and trans
\* T, one for each content mems allows np.empty to return.  In an outcome,
\* `at' is 0 when update returns and otherwise the line that raises; J, R
\* and verts are the values assigned to self.J, self.R and self.verts
\* before that (<<>> when the line was not reached); loc holds update's
\* locals once line 102 has run.
update(params, P, B, T, mems) ==
  LET K == NumJoints(params)
      N == Len(params.v_template)
      Out(at, j, r) == {[at |-> at, J |-> j, R |-> r, verts |-> <<>>, loc |-> NoLoc]}
      vector == Len(B.shape) = 1
      vb == IF vector THEN [at |-> 0] ELSE VShapedB(params, B)
  IN
  IF vector /\ B.shape # <<Len(params.shapedirs[1][1])>> THEN Out(78, <<>>, <<>>)
  ELSE IF vb.at # 0 THEN Out(vb.at, <<>>, <<>>)
  ELSE
  LET v_shaped == IF vector THEN VShaped(params, B.data, N) ELSE <<>>
      Js == IF vector THEN Joints(params, v_shaped, K) ELSE vb.J
  IN
  IF Size(P) % 3 # 0 THEN Out(81, Js, <<>>)
  ELSE
  LET Rs == rodrigues(P.data, Size(P) \div 3) IN
  \* line 84: broadcast_to a shape with R.shape[0] - 1 = -1
  IF Len(Rs) = 0 THEN Out(84, Js, Rs)
  ELSE IF 9 * (Len(Rs) - 1) # Len(params.posedirs[1][1]) THEN Out(90, Js, Rs)
  \* line 93: for a beta that is not a vector self.J[0, :] has more than 3
  \* entries (it has an axis of length 3 besides the vertex axes), and
  \* reshape([3, 1]) raises
  ELSE IF ~vector THEN CASE vb.row # 3 -> Out(93, Js, Rs)
  ELSE
  LET v_posed == VPosed(params, v_shaped, lrotmin(Rs), N) IN
  IF Len(Rs) < K THEN Out(98, Js, Rs)
  ELSE IF K # RestRows THEN Out(105, Js, Rs)
  ELSE {Finish(params, GLoop(parent(params.kintree_table), Rs, Js, mem, K),
               Js, Rs, v_shaped, v_posed, T) : mem \in mems}

(***************************************************************************)
(* The calls explored                                                      *)
(***************************************************************************)
pose_shape == <<24, 3>>

beta_shape == <<10>>

trans_shape == <<3>>

\* Poses of shape [24,3]: all zero; joint 1 turned a quarter turn about z;
\* the same with the root turned a quarter turn about x.
PoseZero == Zeros2(24, 3)

PoseA == Arr(<<24, 3>>, <<0, 0, 0, 0, 0, 1>> \o Rep(<<0>>, 66))

PoseB == Arr(<<24, 3>>, <<1, 0, 0, 0, 0, 1>> \o Rep(<<0>>, 66))

\* PoseA handed over transposed, as a [3,24] array: row 2 (z), column 1.
PoseT == Arr(<<3, 24>>, Rep(<<0>>, 49) \o <<1>> \o Rep(<<0>>, 22))

\* The pose of the two-joint scenario, shape [2,3]: child a quarter turn about z.
PoseE2E == Arr(<<2, 3>>, <<0, 0, 0, 0, 0, 1>>)

\* A pose with no element, np.zeros(0)
PoseEmpty == Arr(<<0>>, <<>>)

PoseArgs == {None, PoseZero, PoseA, PoseB, PoseT, PoseE2E, PoseEmpty}

Beta1 == Arr(<<10>>, <<1, 0, 0, 0, 0, 0, 0, 0, 0, 0>>)

Beta0 == Zeros1(10)

Beta9 == Zeros1(9)

\* Beta1 handed over as an array of shape [1,10,1]
BetaCol == Arr(<<1, 10, 1>>, <<1, 0, 0, 0, 0, 0, 0, 0, 0, 0>>)

BetaArgs == {None, Beta0, Beta1, Beta9, BetaCol}

Trans1 == Arr(<<3>>, <<1, 2, 3>>)

TransRow == Arr(<<1, 3>>, <<1, 2, 3>>)

Trans2 == Arr(<<2>>, <<1, 2>>)

TransArgs == {None, Trans1, TransRow, Trans2}

\* The argument lists of the set_params calls: no argument, every single
\* argument, and lists of two and three arguments, well-shaped and not.
CallArgs ==
  {a \in PoseArgs \X BetaArgs \X TransArgs :
     Cardinality({i \in 1..3 : ~IsNone(a[i])}) <= 1}
  \cup {<<PoseA, Beta1, Trans1>>, <<PoseB, None, Trans1>>,
        <<None, Beta1, TransRow>>, <<PoseA, Beta9, None>>,
        <<PoseZero, Beta1, Trans2>>}

\* What np.empty((K,4,4)) may hold: a zero-filled fresh block, or whatever a
\* freed block of that size was left with (the G of the previous update, or
\* other data).
Junk4 == <<<<7, 7, 7, 7>>, <<7, 7, 7, 7>>, <<7, 7, 7, 7>>, <<7, 7, 7, 7>>>>

Empty(K, left) ==
  {Rep(<<Zero4>>, K), IF Len(left) = K THEN left ELSE Rep(<<Junk4>>, K)}

(***************************************************************************)
(* State machine                                                           *)
(***************************************************************************)
NoCall == [op |-> "none", pose |-> None, beta |-> None, trans |-> None,
           at |-> 0, ret |-> <<>>]

Init ==
  /\ model_path \in ModelPaths
  /\ st = "new"
  /\ pose = None /\ beta = None /\ trans = None
  /\ J = <<>> /\ R = <<>> /\ verts = <<>>
  /\ faces = <<>>
  /\ loc = NoLoc
  /\ call = NoCall
  /\ file = <<>>
  /\ nops = 0

\* The assignments update makes to self before it returns or raises at `at'.
Store(res) ==
  /\ J' = IF res.at = 0 \/ res.at > 80 THEN res.J ELSE J
  /\ R' = IF res.at = 0 \/ res.at > 83 THEN res.R ELSE R
  /\ verts' = IF res.at = 0 THEN res.verts ELSE verts
  /\ loc' = IF res.at = 0 \/ res.at > 107 THEN res.loc ELSE loc

\* SMPLModel(model_path), lines 6-46
Construct ==
  /\ st = "new"
  /\ LET params == Load(model_path) IN
     IF ParentKeyError(params.kintree_table)
     THEN /\ st' = "failed"
          /\ faces' = params.f
          /\ call' = [NoCall EXCEPT !.op = "__init__", !.at = 30]
          /\ UNCHANGED <<pose, beta, trans, J, R, verts, loc>>
     ELSE \E res \in update(params, Arr(pose_shape, Rep(<<0>>, 72)),
                              Arr(beta_shape, Rep(<<0>>, 10)),
                              Arr(trans_shape, Rep(<<0>>, 3)),
                              Empty(NumJoints(params), <<>>)) :
               /\ faces' = params.f
               /\ pose' = Arr(pose_shape, Rep(<<0>>, 72))
               /\ beta' = Arr(beta_shape, Rep(<<0>>, 10))
               /\ trans' = Arr(trans_shape, Rep(<<0>>, 3))
               /\ Store(res)
               /\ st' = IF res.at = 0 THEN "ready" ELSE "failed"
               /\ call' = [NoCall EXCEPT !.op = "__init__", !.at = res.at]
  /\ UNCHANGED <<model_path, file, nops>>

\* Faulty variant of Assign: the `is not None' test is missing.
AssignAlways(old, arg) == arg

\* lines 64-69: one of the three `if x is not None: self.x = x'
Assign(old, arg) == IF IsNone(arg) THEN old ELSE arg

\* line 71: return self.verts
Returned(stored, computed) == stored

\* set_params(pose, beta, trans), lines 48-71
SetParams ==
  /\ st = "ready"
  /\ nops < MaxOps
  /\ \E a \in CallArgs :
     LET p == a[1]
         b == a[2]
         t == a[3]
     IN
     \E res \in update(Load(model_path), Assign(pose, p), Assign(beta, b),
                       Assign(trans, t),
                       Empty(NumJoints(Load(model_path)), loc.G)) :
          /\ pose' = Assign(pose, p)
          /\ beta' = Assign(beta, b)
          /\ trans' = Assign(trans, t)
          /\ Store(res)
          /\ call' = [op |-> "set_params", pose |-> p, beta |-> b, trans |-> t,
                      at |-> res.at,
                      ret |-> IF res.at = 0 THEN Returned(verts', res.verts) ELSE <<>>]
  /\ nops' = nops + 1
  /\ UNCHANGED <<model_path, st, faces, file>>

\* '%f' of a coordinate: the model's coordinates are whole numbers, which
\* print with six zero decimals.
FmtF(x) == [whole |-> x, decimals |-> 0]

\* lines 179-180 (and 192-193): one 'v %f %f %f\n' line per vertex
RECURSIVE VLines(_, _)
VLines(vs, n) ==
  IF n = 0 THEN <<>>
  ELSE VLines(vs, n - 1) \o <<<<"v", FmtF(vs[n][1]), FmtF(vs[n][2]), FmtF(vs[n][3])>>>>

\* Faulty variant of FacePlusOne: the rows are written 0-based.
FacePlusNone(f) == f

\* line 181: one row of self.faces + 1
FacePlusOne(f) == <<f[1] + 1, f[2] + 1, f[3] + 1>>

\* lines 181-182: one 'f %d %d %d\n' line per row of self.faces + 1
RECURSIVE FLines(_, _)
FLines(fs, n) ==
  IF n = 0 THEN <<>>
  ELSE LET f == FacePlusOne(fs[n]) IN FLines(fs, n - 1) \o <<<<"f", f[1], f[2], f[3]>>>>

\* smpl.save_to_obj(path), lines 171-182
SaveToObj ==
  /\ st = "ready"
  /\ nops < MaxOps
  /\ file' = VLines(verts, Len(verts)) \o FLines(faces, Len(faces))
  /\ call' = [NoCall EXCEPT !.op = "save_to_obj"]
  /\ nops' = nops + 1
  /\ UNCHANGED <<model_path, st, pose, beta, trans, J, R, verts, faces, loc>>

\* save_obj(smpl.verts, path), lines 184-195: vertices only
SaveObj ==
  /\ st = "ready"
  /\ nops < MaxOps
  /\ file' = VLines(verts, Len(verts))
  /\ call' = [NoCall EXCEPT !.op = "save_obj"]
  /\ nops' = nops + 1
  /\ UNCHANGED <<model_path, st, pose, beta, trans, J, R, verts, faces, loc>>

Next == Construct \/ SetParams \/ SaveToObj \/ SaveObj

Spec == Init /\ [][Next]_vars

(***************************************************************************)
(* Properties                                                              *)
(***************************************************************************)
Rig == Load(model_path)

\* The parent of every joint has a smaller index than the joint.
Ordered(params) ==
  /\ ~ParentKeyError(params.kintree_table)
  /\ \A i \in 1..(NumJoints(params) - 1) : parent(params.kintree_table)[i] < i

\* Joint i and its ancestors up to the root
RECURSIVE AncSelf(_, _)
AncSelf(par, i) == IF i = 0 THEN {0} ELSE {i} \cup AncSelf(par, par[i])

I4 == <<<<1, 0, 0, 0>>, <<0, 1, 0, 0>>, <<0, 0, 1, 0>>, <<0, 0, 0, 1>>>>

\* The last operation was a set_params call that returned.
SetReturned == call.op = "set_params" /\ call.at = 0

\* The last operation was the constructor or set_params, and it returned.
Updated == call.op \in {"__init__", "set_params"} /\ call.at = 0 /\ st = "ready"

\* The argument a was supplied and its shape is not the model's.
WrongShape(a, shape) == ~IsNone(a) /\ a.shape # shape

\* C1: set_params replaces exactly the supplied parameters, keeps the stored
\* value of every omitted one, and a call that returns hands back the vertex
\* buffer it stored, which is a full recomputation from the stored
\* parameters.
C1_SetParamsFrame ==
  [][call'.op = "set_params" =>
       /\ pose' = (IF IsNone(call'.pose) THEN pose ELSE call'.pose)
       /\ beta' = (IF IsNone(call'.beta) THEN beta ELSE call'.beta)
       /\ trans' = (IF IsNone(call'.trans) THEN trans ELSE call'.trans)
       /\ call'.at = 0 =>
            /\ call'.ret = verts'
            /\ verts' \in {r.verts : r \in update(Rig, pose', beta', trans',
                                                  Empty(NumJoints(Rig), loc.G))}]_vars

\* A second call that passes beta only, after a call that changed the pose.
C1_Witness ==
  /\ SetReturned /\ nops = 2
  /\ IsNone(call.pose) /\ call.beta = Beta1 /\ IsNone(call.trans)
  /\ pose = PoseA /\ beta = Beta1
  /\ call.ret = verts /\ verts # Rig.v_template

\* C2: a set_params call that raises leaves the stored parameters and the
\* derived state (joints, rotations, vertices) as they were before the call.
C2_FailureAtomic ==
  [][(call'.op = "set_params" /\ call'.at # 0) =>
       /\ pose' = pose /\ beta' = beta /\ trans' = trans
       /\ J' = J /\ R' = R /\ verts' = verts]_vars

\* C3: a set_params call given a pose whose shape is not [K,3], a beta whose
\* shape is not [10] or a trans whose shape is not [3] raises.
C3_ShapeChecked ==
  (call.op = "set_params"
     /\ \/ WrongShape(call.pose, <<NumJoints(Rig), 3>>)
        \/ WrongShape(call.beta, beta_shape)
        \/ WrongShape(call.trans, trans_shape))
  => call.at # 0

\* The two-joint scenario: root at the origin, child joint at (0,1,0), one
\* vertex on each joint bound to it, root unrotated, child a quarter turn
\* about z, no shape offset, no translation.  In the 24-joint rig the
\* scenario is joints 0 and 1 with vertices 0 and 1.
Scenario ==
  /\ SetReturned
  /\ \/ model_path = "two" /\ pose = PoseE2E
     \/ model_path = "smpl24" /\ pose = PoseA
  /\ beta.data = Rep(<<0>>, 10)
  /\ trans.data = <<0, 0, 0>>

\* C4: the rig of the two-joint scenario can be loaded and posed, and in
\* the scenario vertex 0 stays at (0,0,0) and vertex 1 ends at (-1,1,0).
C4_EndToEnd ==
  /\ (model_path = "two" /\ st # "new") => st = "ready"
  /\ Scenario => verts[1] = <<0, 0, 0>> /\ verts[2] = <<-1, 1, 0>>

\* C5: the joint count is taken from the model file, so the constructor
\* completes for a model file of any joint count whose parent ids are joint
\* ids, and the per-joint arrays have one entry per joint of the file.
C5_AnyJointCount ==
  (call.op = "__init__" /\ ~ParentKeyError(Rig.kintree_table)) =>
    /\ st = "ready"
    /\ Len(J) = NumJoints(Rig) /\ Len(R) = NumJoints(Rig)
    /\ Len(loc.G) = NumJoints(Rig)

\* pose, beta and trans are all zero and the last update returned.
AtRest ==
  /\ Updated
  /\ pose.data = Rep(<<0>>, 3 * NumJoints(Rig))
  /\ beta.data = Rep(<<0>>, 10)
  /\ trans.data = <<0, 0, 0>>

\* The vertices are the template and every corrected transform is the
\* identity.
RestIdentity ==
  /\ verts = Rig.v_template
  /\ \A i \in 1..Len(loc.G) : loc.G[i] = I4

\* C6: for every tree-valid parent mapping, with zero pose, beta
\* and trans the vertices are the template and every corrected transform
\* is the identity.
C6_RestIdentity == AtRest => RestIdentity

\* C7: the stored vertices are a function of the stored pose, beta and
\* trans and the model data: they are what the pipeline computes from them.
C7_VertsOfStored ==
  (st = "ready" /\ Ordered(Rig)) =>
    verts \in {r.verts : r \in update(Rig, pose, beta, trans,
                                      {Rep(<<Zero4>>, NumJoints(Rig))})}

\* What the last export wrote: one v line per stored vertex in order, then
\* for save_to_obj one f line per face of the model file with every index
\* increased by one.
Exported ==
  call.op \in {"save_to_obj", "save_obj"} =>
    /\ Len(file) = Len(verts) + (IF call.op = "save_to_obj" THEN Len(Rig.f) ELSE 0)
    /\ \A i \in 1..Len(verts) :
         file[i] = <<"v", FmtF(verts[i][1]), FmtF(verts[i][2]), FmtF(verts[i][3])>>
    /\ call.op = "save_to_obj" =>
         \A k \in 1..Len(Rig.f) :
           file[Len(verts) + k] = <<"f", Rig.f[k][1] + 1, Rig.f[k][2] + 1, Rig.f[k][3] + 1>>

\* C8: save_to_obj writes one v line per stored vertex in order and then
\* one f line per face with every zero-based index increased by one,
\* save_obj writes the v lines only, and an export changes neither the
\* stored faces, which stay those of the model file, nor the stored
\* vertices.
C8_Export ==
  /\ [](Exported /\ (st = "ready" => faces = Rig.f))
  /\ [][call'.op \in {"save_to_obj", "save_obj"} =>
          faces' = faces /\ verts' = verts]_vars

\* A second export in a row, of a model with faces.
C8_Witness ==
  /\ call.op = "save_to_obj" /\ nops = 2
  /\ Len(faces) > 0 /\ Len(file) = Len(verts) + Len(faces)
  /\ file[Len(verts) + 1] = <<"f", 1, 2, 3>>

\* C9: for every tree-valid parent mapping, every G[parent(i)]
\* the loop reads was assigned earlier in the same update.
C9_ParentFirst == loc.G # <<>> => loc.unassigned = {}

\* The pose blend offsets of update's last run: v_posed - v_shaped
PoseOffsets(l) == [v \in 1..Len(l.v_posed) |-> Sub3(l.v_posed[v], l.v_shaped[v])]

\* From one run of update to the next with the same joints: the corrected
\* transform of a joint whose own and ancestors' rotations are the same is
\* the same, and the pose blend offsets are the same when the rotations of
\* all joints but the root are the same.
Local ==
  (loc.G # <<>> /\ loc'.G # <<>> /\ loc'.J = loc.J) =>
    LET par == parent(Rig.kintree_table) IN
    /\ \A i \in 0..(Len(loc.G) - 1) :
         (\A a \in AncSelf(par, i) : loc'.R[a + 1] = loc.R[a + 1])
         => loc'.G[i + 1] = loc.G[i + 1]
    /\ (\A a \in 1..(Len(loc.G) - 1) : loc'.R[a + 1] = loc.R[a + 1])
       => PoseOffsets(loc') = PoseOffsets(loc)

\* C10: for every tree-valid parent mapping and fixed shape,
\* the corrected transform of joint i depends only on the rotations of i
\* and its ancestors, and the pose blend does not depend on the root
\* rotation.
C10_Locality == [][Local]_vars

====
